---- MODULE Spec2Model ----
(***************************************************************************)
(* A model of doppioh (console/doppioh.ts): the generator of native-method *)
(* stubs and of the JVMTypes.d.ts header.                                  *)
(*                                                                         *)
(* Strings are sequences of tokens.  The tokens "_" and "/" (and the       *)
(* punctuation "L", ";", "[", "JVMTypes.", "JVMArray<", ">") are the       *)
(* characters the code's string operations look at; every other token is   *)
(* a run of characters none of those operations touches.                   *)
(***************************************************************************)
EXTENDS Integers, Sequences, FiniteSets, TLC

\* ------------------------------------------------------------------ bounds
MaxNameLen == 5
MaxArrayDepth == 2
MaxRuns == 3

\* ------------------------------------------------------- string primitives
\* String.prototype.replace(/x/g, 'y') for single characters x and y.
RECURSIVE ReplaceAll(_, _, _)
ReplaceAll(s, from, to) ==
  IF s = <<>> THEN <<>>
  ELSE <<IF Head(s) = from THEN to ELSE Head(s)>> \o ReplaceAll(Tail(s), from, to)

\* replace(/_/g, '__'): every underscore becomes two.
RECURSIVE DoubleUnderscores(_)
DoubleUnderscores(s) ==
  IF s = <<>> THEN <<>>
  ELSE (IF Head(s) = "_" THEN <<"_", "_">> ELSE <<Head(s)>>) \o DoubleUnderscores(Tail(s))

\* replace(/\/\//g, '_'): leftmost, non-overlapping pairs of slashes.
RECURSIVE CollapseDoubleSlashes(_)
CollapseDoubleSlashes(s) ==
  IF s = <<>> THEN <<>>
  ELSE IF Len(s) >= 2 /\ s[1] = "/" /\ s[2] = "/"
       THEN <<"_">> \o CollapseDoubleSlashes(SubSeq(s, 3, Len(s)))
       ELSE <<Head(s)>> \o CollapseDoubleSlashes(Tail(s))

\* util.descriptor2typestr on a reference descriptor: L<name>; => <name>.
descriptor2typestr(desc) == SubSeq(desc, 2, Len(desc) - 1)

\* util.is_primitive_type: the one-character descriptors.
PrimitiveChars == {"B", "C", "D", "F", "I", "J", "S", "Z", "V"}
is_primitive_type(desc) == Len(desc) = 1 /\ desc[1] \in PrimitiveChars

\* ------------------------------------------------------------- TypeMapper
\* The name jvmtype2tstype returns (its enqueueing side effect is
\* jvmtype2tstypeQueue below).
RECURSIVE jvmtype2tstype(_, _)
jvmtype2tstype(desc, prefix) ==
  LET ns == IF prefix THEN <<"JVMTypes.">> ELSE <<>> IN
  CASE desc[1] = "[" -> ns \o <<"JVMArray<">> \o jvmtype2tstype(Tail(desc), prefix) \o <<">">>
    [] desc[1] = "L" -> ns \o ReplaceAll(DoubleUnderscores(descriptor2typestr(desc)), "/", "_")
    [] desc[1] = "J" -> <<"Long">>
    [] desc[1] = "V" -> <<"void">>
    [] OTHER -> <<"number">>

\* The result of a conversion that can throw.
Ok(v) == [err |-> "", val |-> v]
Thrown(msg) == [err |-> msg, val |-> <<>>]

\* A decoder that rejects every non-reference name.
RECURSIVE tstype2jvmtype_strict(_)
tstype2jvmtype_strict(tsType) ==
  IF tsType # <<>> /\ tsType[1] = "JVMArray<" THEN
    LET inner == tstype2jvmtype_strict(SubSeq(tsType, 2, Len(tsType) - 1)) IN
    IF inner.err # "" THEN inner ELSE Ok(<<"[">> \o inner.val)
  ELSE IF tsType \in {<<"number">>, <<"void">>, <<"Long">>} THEN Thrown("Ambiguous.")
  ELSE Ok(<<"L">> \o CollapseDoubleSlashes(ReplaceAll(tsType, "_", "/")) \o <<";">>)

\* tstype2jvmtype: slice(9, length - 1) drops the token "JVMArray<" and the
\* closing ">".
RECURSIVE tstype2jvmtype(_)
tstype2jvmtype(tsType) ==
  IF tsType # <<>> /\ tsType[1] = "JVMArray<" THEN
    LET inner == tstype2jvmtype(SubSeq(tsType, 2, Len(tsType) - 1)) IN
    IF inner.err # "" THEN inner ELSE Ok(<<"[">> \o inner.val)
  ELSE IF tsType = <<"number">> THEN Thrown("Ambiguous.")
  ELSE IF tsType = <<"void">> THEN Ok(<<"V">>)
  ELSE Ok(<<"L">> \o CollapseDoubleSlashes(ReplaceAll(tsType, "_", "/")) \o <<";">>)

\* ------------------------------------------------ the classes on the disk
\* Internal names, as token sequences.
N_Object == <<"java", "/", "lang", "/", "Object">>
N_Throwable == <<"java", "/", "lang", "/", "Throwable">>
N_Serializable == <<"java", "/", "io", "/", "Serializable">>
N_A == <<"p", "/", "A">>
N_B == <<"p", "/", "B">>
N_C == <<"p", "/", "_", "C">>
N_I == <<"p", "/", "I">>
N_N == <<"p", "/", "N">>
N_DE == <<"q", "/", "D", "_", "E">>
N_DsE == <<"q", "/", "D", "/", "E">>
\* Two malformed class files, each naming the other as its superclass.
N_X == <<"r", "/", "X">>
N_Y == <<"r", "/", "Y">>

\* The listing order of the file system.
AllNames ==
  <<N_Object, N_Throwable, N_Serializable, N_A, N_B, N_C, N_I, N_N, N_DE, N_DsE,
    N_X, N_Y>>
NameSet == {AllNames[i] : i \in 1..Len(AllNames)}

Desc(name) == <<"L">> \o name \o <<";">>
ArrayOf(desc) == <<"[">> \o desc
NoClass == <<>>

Method(sig, native, static, params, ret) ==
  [signature |-> sig, isNative |-> native, isStatic |-> static,
   parameterTypes |-> params, returnType |-> ret]
Field(name, type, static) == [name |-> name, rawDescriptor |-> type, isStatic |-> static]
Class(super, ifaces, isIface, fields, methods) ==
  [superClassRef |-> super, interfaceClassRefs |-> ifaces, isInterface |-> isIface,
   fields |-> fields, methods |-> methods]

\* What the class-file parser yields for the bytes of each class.
ClassFile(name) ==
  CASE name = N_Object ->
         Class(NoClass, <<>>, FALSE, <<>>,
               <<Method("hashCode()I", TRUE, FALSE, <<>>, <<"I">>)>>)
    [] name = N_Throwable ->
         Class(Desc(N_Object), <<Desc(N_Serializable)>>, FALSE,
               <<Field("cause", Desc(N_Throwable), FALSE)>>,
               <<Method("fillInStackTrace(I)Ljava/lang/Throwable;", TRUE, FALSE,
                        <<(<<"I">>)>>, Desc(N_Throwable)),
                 Method("toString()V", FALSE, FALSE, <<>>, <<"V">>)>>)
    [] name = N_Serializable ->
         Class(Desc(N_Object), <<>>, TRUE, <<>>, <<>>)
    [] name = N_A ->
         Class(Desc(N_Object), <<>>, FALSE,
               <<Field("count", <<"J">>, TRUE)>>,
               <<Method("init()V", TRUE, TRUE, <<>>, <<"V">>),
                 Method("find([Lp/B;I)Lp/_C;", TRUE, FALSE,
                        <<ArrayOf(Desc(N_B)), (<<"I">>)>>, Desc(N_C)),
                 Method("size()I", FALSE, FALSE, <<>>, <<"I">>),
                 Method("stamp()J", TRUE, TRUE, <<>>, <<"J">>),
                 Method("dims()[[I", TRUE, TRUE, <<>>, ArrayOf(ArrayOf(<<"I">>))),
                 Method("flag(J)Z", TRUE, FALSE, <<(<<"J">>)>>, <<"Z">>)>>)
    [] name = N_B ->
         Class(Desc(N_Object), <<Desc(N_I)>>, FALSE,
               <<Field("owner", Desc(N_A), FALSE)>>,
               <<Method("peer()Lp/B;", FALSE, FALSE, <<>>, Desc(N_B))>>)
    [] name = N_C ->
         Class(Desc(N_A), <<>>, FALSE, <<>>,
               <<Method("time()J", FALSE, FALSE, <<>>, <<"J">>)>>)
    [] name = N_I ->
         Class(Desc(N_Object), <<Desc(N_Serializable)>>, TRUE,
               <<Field("K", Desc(N_N), TRUE)>>,
               <<Method("peer()Lp/B;", FALSE, FALSE, <<>>, Desc(N_B)),
                 Method("make()Lp/I;", FALSE, TRUE, <<>>, Desc(N_I))>>)
    [] name = N_N ->
         Class(Desc(N_Object), <<>>, FALSE,
               <<Field("n", <<"I">>, FALSE)>>,
               <<Method("get()I", FALSE, FALSE, <<>>, <<"I">>)>>)
    [] name = N_DE ->
         Class(Desc(N_Object), <<>>, FALSE, <<>>,
               <<Method("run()V", TRUE, TRUE, <<>>, <<"V">>)>>)
    [] name = N_DsE ->
         Class(Desc(N_Object), <<>>, FALSE, <<>>, <<>>)
    [] name = N_X ->
         Class(Desc(N_Y), <<>>, FALSE, <<>>, <<>>)
    [] name = N_Y ->
         Class(Desc(N_X), <<>>, FALSE, <<>>, <<>>)

\* The search locations: the JDK's, then those of -classpath.  A location
\* is a folder or a jar and holds a set of class files.
Folder(held) == [kind |-> "folder", classes |-> held]
Jar(held) == [kind |-> "jar", classes |-> held]
JdkLocation == {N_Object, N_Throwable, N_Serializable}
UserClasses == {N_A, N_B, N_C, N_I, N_N, N_DE, N_DsE, N_X, N_Y}
Classpaths ==
  { <<Jar(JdkLocation), Folder(UserClasses)>>,
    <<Jar(JdkLocation), Folder({N_A, N_N}), Jar(UserClasses)>>,
    <<Jar(JdkLocation), Folder(UserClasses \ {N_B, N_DsE})>> }

\* item.hasClass(type): a jar knows its entries, a folder cannot tell
\* without reading.
hasClass(item, type) ==
  IF item.kind = "folder" THEN "INDETERMINATE"
  ELSE IF type \in item.classes THEN "TRUE" ELSE "FALSE"
\* item.tryLoadClassSync(type): the bytes (here the type's name), or null.
null == <<"null">>
tryLoadClassSync(item, type) == IF type \in item.classes THEN type ELSE null

\* The class or package named on the command line (targetPath), and the
\* classes of -force_headers after util.int_classname.
Targets == {<<"p">>, <<"q">>, <<"java">>, N_N, N_DE, N_X}
ForceHeaders == {<<>>, <<Desc(N_I)>>}
Dialects == {"ts", "js"}

\* ----------------------------------------------------------- ClassResolver
\* loadClass: the locations in order; those whose hasClass is not FALSE are
\* asked for the bytes, and the first bytes that are not null are returned.
\* from is the location that gave them (0: "Unable to find class"),
\* attempts the locations asked.
\* A loop that returns whatever the first location asked gives, null too.
RECURSIVE loadClassFrom_firstAsked(_, _, _, _)
loadClassFrom_firstAsked(cp, type, i, attempts) ==
  IF i > Len(cp) THEN [type |-> type, from |-> 0, attempts |-> attempts]
  ELSE IF hasClass(cp[i], type) = "FALSE"
       THEN loadClassFrom_firstAsked(cp, type, i + 1, attempts)
       ELSE [type |-> type, from |-> IF tryLoadClassSync(cp[i], type) # null THEN i ELSE 0,
             attempts |-> Append(attempts, i)]

RECURSIVE loadClassFrom(_, _, _, _)
loadClassFrom(cp, type, i, attempts) ==
  IF i > Len(cp) THEN [type |-> type, from |-> 0, attempts |-> attempts]
  ELSE IF hasClass(cp[i], type) = "FALSE" THEN loadClassFrom(cp, type, i + 1, attempts)
  ELSE IF tryLoadClassSync(cp[i], type) # null
       THEN [type |-> type, from |-> i, attempts |-> Append(attempts, i)]
       ELSE loadClassFrom(cp, type, i + 1, Append(attempts, i))
loadClass(cp, type) == loadClassFrom(cp, type, 1, <<>>)

\* What a findClass call did: whether it returned, the cache it left and the
\* loadClass calls it made, in order.
Found(c) == [ok |-> TRUE, cache |-> c, loads |-> <<>>]
NotFound(c, loads) == [ok |-> FALSE, cache |-> c, loads |-> loads]
Loaded(c, ld) == [ok |-> TRUE, cache |-> c, loads |-> <<ld>>]
\* r, then r2
After(r, r2) == [r2 EXCEPT !.loads = r.loads \o @]

\* findClass on the cache c.  `stack` holds the descriptors whose findClass
\* is in progress: re-entering one of them recurses without end, the call
\* stack runs out and the RangeError leaves through every catch as an Error.
RECURSIVE findClass(_, _, _, _)
RECURSIVE findInterfaces(_, _, _, _)
\* interfaceClassRefs.map(iface => findClass(iface.name)), after the
\* superclass (r) was found
findInterfaces(r, cp, ifaces, stack) ==
  IF ~r.ok \/ ifaces = <<>> THEN r
  ELSE findInterfaces(After(r, findClass(r.cache, cp, Head(ifaces), stack)),
                      cp, Tail(ifaces), stack)

\* A cache entry made whether or not the supertypes were found.
cacheClass_early(r, descriptor) == [r EXCEPT !.cache = @ \cup {descriptor}]
\* cache[descriptor] = rv, once the superclass and the interfaces (r) are found
cacheClass(r, descriptor) ==
  IF ~r.ok THEN r ELSE [r EXCEPT !.cache = @ \cup {descriptor}]

\* case 'L', ld being what loadClass returned
findReference(c, cp, descriptor, stack, ld) ==
  IF ld.from = 0 THEN NotFound(c, <<ld>>)
  ELSE
    LET rv == ClassFile(descriptor2typestr(descriptor)) IN
    cacheClass(
      findInterfaces(
        IF rv.superClassRef = NoClass THEN Loaded(c, ld)
        ELSE After(Loaded(c, ld),
                   findClass(c, cp, rv.superClassRef, stack \cup {descriptor})),
        cp, rv.interfaceClassRefs, stack \cup {descriptor}),
      descriptor)

findClass(c, cp, descriptor, stack) ==
  IF descriptor \in c THEN Found(c)
  ELSE IF descriptor[1] = "L" THEN
    IF descriptor \in stack THEN NotFound(c, <<>>)
    ELSE findReference(c, cp, descriptor, stack,
                       loadClass(cp, descriptor2typestr(descriptor)))
  ELSE Found(c \cup {descriptor})

\* ------------------------------------------------------------------ state
VARIABLES
  \* the command line and the disk
  dialect,        \* "ts" (-ts) or "js"
  classpath,      \* the search locations, each the set of classes it holds
  targetPath,     \* the class or package asked for
  forceHeaders,   \* -force_headers, as descriptors
  headerFile,     \* JVMTypes.d.ts: NoFile, or the entries written to it
  \* the run
  pc,             \* where the main callback stands
  jars,           \* per search location: what its loadJar has done so far
  cache,          \* the resolution cache (its keys)
  loads,          \* the loadClass calls made, in order
  headerSet, generateQueue, classesSeen, headerCount,   \* TSTemplate
  firstMethod, firstClass,                              \* JSTemplate
  stream,         \* the stub file: the entries written to it
  classes, idx,   \* getClasses' result and the main loop's i
  \* observations
  pushed,         \* every descriptor pushed onto generateQueue, in order
  existingHeaders,\* what the constructor read from JVMTypes.d.ts
  run,            \* the number of this run
  prevRun,        \* the previous run: its inputs and artifacts
  \* the type mapper on its own
  tIn, tPrefix, tName, tBack, tPc

progVars ==
  <<dialect, classpath, targetPath, forceHeaders, headerFile, pc, jars, cache, loads,
    headerSet,
    generateQueue, classesSeen, headerCount, firstMethod, firstClass, stream,
    classes, idx, pushed, existingHeaders, run, prevRun>>
typeVars == <<tIn, tPrefix, tName, tBack, tPc>>
vars == <<progVars, typeVars>>

NoFile == <<"no file">>

\* The mutable state the template's methods work on, threaded through them;
\* thrown is set when an exception is on its way out.
World ==
  [cache |-> cache, loads |-> loads, headerSet |-> headerSet, generateQueue |-> generateQueue,
   classesSeen |-> classesSeen, headerCount |-> headerCount,
   firstMethod |-> firstMethod, firstClass |-> firstClass,
   stream |-> stream, headerFile |-> headerFile, pushed |-> pushed, thrown |-> FALSE]

Commit(w) ==
  /\ cache' = w.cache
  /\ loads' = w.loads
  /\ headerSet' = w.headerSet
  /\ generateQueue' = w.generateQueue
  /\ classesSeen' = w.classesSeen
  /\ headerCount' = w.headerCount
  /\ firstMethod' = w.firstMethod
  /\ firstClass' = w.firstClass
  /\ stream' = w.stream
  /\ headerFile' = w.headerFile
  /\ pushed' = w.pushed

\* ------------------------------------------------------ HeaderGraphBuilder
\* A worklist of two places that drops what does not fit.
queuePush_bounded(w, r, desc) ==
  IF r.ok
  THEN IF Len(w.generateQueue) < 2
       THEN [w EXCEPT !.cache = r.cache, !.loads = @ \o r.loads,
                      !.generateQueue = Append(@, desc), !.pushed = Append(@, desc)]
       ELSE [w EXCEPT !.cache = r.cache, !.loads = @ \o r.loads]
  ELSE [w EXCEPT !.cache = r.cache, !.loads = @ \o r.loads, !.thrown = TRUE]

\* this.generateQueue.push(findClass(desc)), r being what findClass did.  The
\* ClassData pushed is the one of desc; the queue holds its getInternalName().
queuePush(w, r, desc) ==
  IF r.ok
  THEN [w EXCEPT !.cache = r.cache, !.loads = @ \o r.loads,
                 !.generateQueue = Append(@, desc), !.pushed = Append(@, desc)]
  ELSE [w EXCEPT !.cache = r.cache, !.loads = @ \o r.loads, !.thrown = TRUE]

\* generateClassDefinition without the mark in headerSet.
RECURSIVE generateClassDefinition_noMark(_, _)
generateClassDefinition_noMark(w, desc) ==
  IF desc \in w.headerSet \/ is_primitive_type(desc) THEN w
  ELSE IF desc[1] = "[" THEN generateClassDefinition_noMark(w, Tail(desc))
  ELSE queuePush(w, findClass(w.cache, classpath, desc, {}), desc)

\* generateClassDefinition
RECURSIVE generateClassDefinition(_, _)
generateClassDefinition(w, desc) ==
  IF desc \in w.headerSet \/ is_primitive_type(desc) THEN w
  ELSE IF desc[1] = "[" THEN generateClassDefinition(w, Tail(desc))
  ELSE queuePush([w EXCEPT !.headerSet = @ \cup {desc}],
                 findClass(w.cache, classpath, desc, {}), desc)

\* What a call of jvmtype2tstype(desc, _) does besides returning a name.
RECURSIVE jvmtype2tstypeQueue(_, _)
jvmtype2tstypeQueue(w, desc) ==
  CASE desc[1] = "[" -> jvmtype2tstypeQueue(w, Tail(desc))
    [] desc[1] = "L" -> generateClassDefinition(w, desc)
    [] OTHER -> w

\* descs.forEach(desc => this.generateClassDefinition(desc)), left at the
\* first exception.
RECURSIVE generateClassDefinitions(_, _)
generateClassDefinitions(w, descs) ==
  IF descs = <<>> \/ w.thrown THEN w
  ELSE generateClassDefinitions(generateClassDefinition(w, Head(descs)), Tail(descs))

\* The conversions of a list of types, in order, left at the first exception.
RECURSIVE jvmtypes2tstypesQueue(_, _)
jvmtypes2tstypesQueue(w, descs) ==
  IF descs = <<>> \/ w.thrown THEN w
  ELSE jvmtypes2tstypesQueue(jvmtype2tstypeQueue(w, Head(descs)), Tail(descs))

\* -------------------------------------------------------------- StubEmitter
\* An entry of the stub file.
StubEntry(kind, cls, name, key, params, ret, body) ==
  [kind |-> kind, cls |-> cls, name |-> name, key |-> key,
   params |-> params, ret |-> ret, body |-> body]
Write(w, entry) == [w EXCEPT !.stream = Append(@, entry)]
\* A stream.write that an exception thrown before it skips.
WriteUnlessThrown(w, entry) == IF w.thrown THEN w ELSE Write(w, entry)

Raise == "thread.throwNewException(UnsatisfiedLinkError, Native method not implemented.)"

Names(types, prefix) == [i \in 1..Len(types) |-> jvmtype2tstype(types[i], prefix)]

\* TSTemplate.classStart
TSclassStart(w, className) ==
  generateClassDefinition(
    [w EXCEPT !.stream = Append(@, StubEntry("classStart", className, "", <<>>,
                                             <<>>, <<>>, <<>>)),
              !.classesSeen = Append(@, className)],
    <<"L">> \o ReplaceAll(className, "_", "/") \o <<";">>)

\* TSTemplate.classEnd
TSclassEnd(w, className) ==
  Write(w, StubEntry("classEnd", className, "", <<>>, <<>>, <<>>, <<>>))

\* The statements of a TypeScript stub with the placeholder first.
TSbody_returnFirst(rType) ==
  LET trueRtype == jvmtype2tstype(rType, TRUE)
      rval == IF trueRtype = <<"number">> THEN "0"
              ELSE IF trueRtype # <<"void">> THEN "null" ELSE ""
  IN (IF rval = "0" THEN <<"return 0">>
      ELSE IF rval = "null" THEN <<"return null">> ELSE <<>>) \o <<Raise>>

\* The statements of a TypeScript stub: the raise, then `return rval`.
TSbody(rType) ==
  LET trueRtype == jvmtype2tstype(rType, TRUE)
      rval == IF trueRtype = <<"number">> THEN "0"
              ELSE IF trueRtype # <<"void">> THEN "null" ELSE ""
  IN <<Raise>> \o (IF rval = "0" THEN <<"return 0">>
                   ELSE IF rval = "null" THEN <<"return null">> ELSE <<>>)

\* TSTemplate.method: the conversions enqueue before anything is written.
TSmethod(w, classDesc, m) ==
  LET argTypes == m.parameterTypes
      rType == m.returnType
  IN WriteUnlessThrown(
       jvmtypes2tstypesQueue(
         generateClassDefinitions(jvmtype2tstypeQueue(w, rType), Append(argTypes, rType)),
         (IF m.isStatic THEN <<>> ELSE <<classDesc>>) \o argTypes \o <<rType>>),
       StubEntry("method", classDesc, m.signature, <<>>,
                 <<(<<"JVMThread">>)>>
                   \o (IF m.isStatic THEN <<>> ELSE <<jvmtype2tstype(classDesc, TRUE)>>)
                   \o Names(argTypes, TRUE),
                 jvmtype2tstype(rType, TRUE), TSbody(rType)))

\* JSTemplate.classStart
JSclassStart(w, className) ==
  Write(IF w.firstClass THEN [w EXCEPT !.firstMethod = TRUE, !.firstClass = FALSE]
        ELSE Write([w EXCEPT !.firstMethod = TRUE],
                   StubEntry("comma", <<>>, "", <<>>, <<>>, <<>>, <<>>)),
        StubEntry("classStart", className, "", ReplaceAll(className, "_", "/"),
                  <<>>, <<>>, <<>>))

\* JSTemplate.classEnd
JSclassEnd(w, className) ==
  Write(w, StubEntry("classEnd", className, "", <<>>, <<>>, <<>>, <<>>))

\* The statements of a JavaScript stub.
JSbody == <<Raise>>

\* JSTemplate.method
JSmethod(w, classDesc, m) ==
  LET argSig == <<(<<"thread">>)>>
                  \o (IF m.isStatic THEN <<>> ELSE <<(<<"javaThis">>)>>)
                  \o [i \in 1..Len(m.parameterTypes) |-> <<"arg">>]
  IN Write(IF w.firstMethod THEN [w EXCEPT !.firstMethod = FALSE]
           ELSE Write(w, StubEntry("comma", <<>>, "", <<>>, <<>>, <<>>, <<>>)),
           StubEntry("method", classDesc, m.signature, <<>>, argSig, <<>>, JSbody))

\* The template chosen by the -ts flag.
classStart(w, className) ==
  IF dialect = "ts" THEN TSclassStart(w, className) ELSE JSclassStart(w, className)
classEnd(w, className) ==
  IF dialect = "ts" THEN TSclassEnd(w, className) ELSE JSclassEnd(w, className)
method(w, classDesc, m) ==
  IF dialect = "ts" THEN TSmethod(w, classDesc, m) ELSE JSmethod(w, classDesc, m)

\* classData.getInternalName().replace(/\//g, '_'), without its L and ;
fixedClassName(desc) ==
  LET fixed == ReplaceAll(desc, "/", "_") IN SubSeq(fixed, 2, Len(fixed) - 1)

\* template.method(...), unless classStart threw.
methodUnlessThrown(w, desc, m) == IF w.thrown THEN w ELSE method(w, desc, m)

\* methods.forEach(...): the state, and nativeFound.
RECURSIVE processMethods(_, _, _, _)
processMethods(w, desc, ms, nativeFound) ==
  IF w.thrown \/ ms = <<>> THEN [w |-> w, nativeFound |-> nativeFound]
  ELSE IF Head(ms).isNative THEN
    processMethods(
      methodUnlessThrown(IF ~nativeFound THEN classStart(w, fixedClassName(desc)) ELSE w,
                         desc, Head(ms)),
      desc, Tail(ms), TRUE)
  ELSE processMethods(w, desc, Tail(ms), nativeFound)

\* if (nativeFound) template.classEnd(stream, fixedClassName)
closeClass(r, desc) ==
  IF r.w.thrown THEN r.w
  ELSE IF r.nativeFound THEN classEnd(r.w, fixedClassName(desc))
  ELSE r.w

\* processClassData that opens a block for every class.
processClassData_always(w, desc) ==
  closeClass(processMethods(classStart(w, fixedClassName(desc)), desc,
                            ClassFile(descriptor2typestr(desc)).methods, TRUE), desc)

\* processClassData
processClassData(w, desc) ==
  closeClass(processMethods(w, desc, ClassFile(descriptor2typestr(desc)).methods, FALSE),
             desc)

\* ----------------------------------------------------- header declarations
\* An entry of JVMTypes.d.ts.  `of` is the class a declaration was written
\* for (cls.getInternalName()); the file itself holds only the name.
HeaderEntry(kind, of, name, extends, sep, bases, members, complete) ==
  [kind |-> kind, of |-> of, name |-> name, extends |-> extends, sep |-> sep,
   bases |-> bases, members |-> members, complete |-> complete]
Marker(kind, name) == HeaderEntry(kind, <<>>, name, <<>>, "", <<>>, <<>>, TRUE)
WriteHeader(w, entry) == [w EXCEPT !.headerFile = Append(@, entry)]

MemberLine(kind, flags, sig, full, args, type) ==
  [kind |-> kind, flags |-> flags, sig |-> sig, full |-> full, args |-> args, type |-> type]

RECURSIVE Flatten(_)
Flatten(ss) == IF ss = <<>> THEN <<>> ELSE Head(ss) \o Flatten(Tail(ss))

\* _outputMethod: the lines written for m, a method of a class or interface.
\* A long or a double takes a second slot, of type any.
outputMethodLines(m, isInterface) ==
  LET argTypes == m.parameterTypes
      rType == m.returnType
      cb == IF rType = <<"V">> THEN <<>> ELSE jvmtype2tstype(rType, FALSE)
      args == Flatten([i \in 1..Len(argTypes) |->
                <<jvmtype2tstype(argTypes[i], FALSE)>>
                  \o (IF argTypes[i] \in {<<"J">>, <<"D">>} THEN <<(<<"any">>)>> ELSE <<>>)])
      methodFlags == IF m.isStatic THEN "public static" ELSE "public"
  IN IF isInterface
     THEN IF m.isStatic THEN <<>>
          ELSE <<MemberLine("method", "", m.signature, FALSE, args, cb)>>
     ELSE <<MemberLine("method", methodFlags, m.signature, FALSE, args, cb),
            MemberLine("method", methodFlags, m.signature, TRUE, args, cb)>>

\* The types _outputMethod converts, in order: cbSig's, then the arguments'.
outputMethodTypes(m) ==
  (IF m.returnType = <<"V">> THEN <<>> ELSE <<m.returnType>>) \o m.parameterTypes

\* _outputField
outputFieldLines(f, isInterface) ==
  IF isInterface THEN <<>>
  ELSE <<MemberLine("field", IF f.isStatic THEN "public static" ELSE "public",
                    f.name, TRUE, <<>>, jvmtype2tstype(f.rawDescriptor, FALSE))>>
outputFieldTypes(f, isInterface) == IF isInterface THEN <<>> ELSE <<f.rawDescriptor>>

\* The types _processHeader converts, in order.
headerTypes(desc, cls) ==
  <<desc>>
    \o (IF cls.superClassRef # NoClass THEN <<cls.superClassRef>> ELSE <<>>)
    \o cls.interfaceClassRefs
    \o Flatten([i \in 1..Len(cls.fields) |-> outputFieldTypes(cls.fields[i], cls.isInterface)])
    \o Flatten([i \in 1..Len(cls.methods) |-> outputMethodTypes(cls.methods[i])])

\* The declaration _processHeader writes when nothing is thrown.
declaration(desc, cls) ==
  HeaderEntry(IF cls.isInterface THEN "interface" ELSE "class", desc,
    jvmtype2tstype(desc, FALSE),
    IF cls.superClassRef # NoClass THEN jvmtype2tstype(cls.superClassRef, FALSE) ELSE <<>>,
    IF cls.interfaceClassRefs = <<>> THEN ""
    ELSE IF cls.isInterface THEN ", " ELSE " implements ",
    Names(cls.interfaceClassRefs, FALSE),
    Flatten([i \in 1..Len(cls.fields) |-> outputFieldLines(cls.fields[i], cls.isInterface)])
      \o Flatten([i \in 1..Len(cls.methods) |->
                    outputMethodLines(cls.methods[i], cls.isInterface)]),
    TRUE)

\* What reaches the file: the declaration, or its beginning when a
\* conversion threw.
writeDeclaration(w, entry) ==
  WriteHeader(w, IF w.thrown
                 THEN HeaderEntry(entry.kind, entry.of, entry.name, <<>>, "", <<>>, <<>>, FALSE)
                 ELSE entry)

\* _processHeader: every conversion enqueues.  (The classes here carry no
\* injected members and no miranda or default methods.)
processHeader(w, desc) ==
  writeDeclaration(
    jvmtypes2tstypesQueue([w EXCEPT !.headerCount = @ + 1],
                          headerTypes(desc, ClassFile(descriptor2typestr(desc)))),
    declaration(desc, ClassFile(descriptor2typestr(desc))))

\* The names the constructor's two passes find in the file it read: those
\* after "export class " that do not begin with JVMArray, then those after
\* "export interface ".
IsClassMarker(e) == e.kind = "class" /\ ~(e.name # <<>> /\ e.name[1] = "JVMArray<")
IsInterfaceMarker(e) == e.kind = "interface"
MarkerNames(file) ==
  LET cs == SelectSeq(file, IsClassMarker)
      is == SelectSeq(file, IsInterfaceMarker)
  IN [i \in 1..Len(cs) |-> cs[i].name] \o [i \in 1..Len(is) |-> is[i].name]

\* this.generateClassDefinition(this.tstype2jvmtype(clsName))
replayDecoded(w, r) ==
  IF r.err # "" THEN [w EXCEPT !.thrown = TRUE] ELSE generateClassDefinition(w, r.val)
replayName(w, clsName) == replayDecoded(w, tstype2jvmtype(clsName))

\* The two while loops, left at the first exception.
RECURSIVE replayNames(_, _)
replayNames(w, clsNames) ==
  IF clsNames = <<>> \/ w.thrown THEN w
  ELSE replayNames(replayName(w, Head(clsNames)), Tail(clsNames))

\* The constructor's try block; whatever is thrown in it is ignored.
replayExisting(w, file) ==
  IF file = NoFile THEN w
  ELSE [replayNames(w, MarkerNames(file)) EXCEPT !.thrown = FALSE]

JVMArrayName == <<"JVMArray<", "T", ">">>

\* The rest of the constructor: createWriteStream empties the file, then
\* headersStart, generateArrayDefinition, generateMiscDefinitions, Throwable
\* and the forced classes.
prelude(w) ==
  generateClassDefinitions(
    [w EXCEPT !.headerFile =
       <<Marker("headersStart", <<>>),
         HeaderEntry("class", <<>>, JVMArrayName, jvmtype2tstype(Desc(N_Object), FALSE),
                     "", <<>>, <<>>, TRUE),
         Marker("misc", <<>>)>>],
    <<Desc(N_Throwable)>> \o forceHeaders)

\* ------------------------------------------------------------- Orchestrator
IsPrefix(dir, name) ==
  /\ Len(name) > Len(dir) + 1
  /\ SubSeq(name, 1, Len(dir)) = dir
  /\ name[Len(dir) + 1] = "/"

\* tryStatSync(item), then tryStatSync(item + ".class"), at one location.
Stat(loc, item) ==
  IF \E n \in loc.classes : IsPrefix(item, n) THEN "dir"
  ELSE IF item \in loc.classes THEN "file"
  ELSE "none"

\* The index of the separator that ends the component starting at from.
RECURSIVE ComponentEnd(_, _)
ComponentEnd(name, from) ==
  IF from > Len(name) \/ name[from] = "/" THEN from ELSE ComponentEnd(name, from + 1)

\* tryReaddirSync(dir) at one location, joined to dir: the class files
\* (without their extension) and the sub-directories, in listing order.
RECURSIVE ListingFrom(_, _, _, _)
ListingFrom(loc, dir, i, acc) ==
  IF i > Len(AllNames) THEN acc
  ELSE
    LET n == AllNames[i] IN
    IF n \in loc.classes /\ IsPrefix(dir, n) THEN
      LET e == ComponentEnd(n, Len(dir) + 2)
          entry == [path |-> SubSeq(n, 1, e - 1), isClass |-> e > Len(n)]
      IN IF \E k \in 1..Len(acc) : acc[k] = entry
         THEN ListingFrom(loc, dir, i + 1, acc)
         ELSE ListingFrom(loc, dir, i + 1, Append(acc, entry))
    ELSE ListingFrom(loc, dir, i + 1, acc)
tryReaddirSync(loc, dir) == ListingFrom(loc, dir, 1, <<>>)

\* The inner for loop over one directory listing.
RECURSIVE walkListing(_, _)
walkListing(st, dirListing) ==
  IF dirListing = <<>> THEN st
  ELSE LET e == Head(dirListing) IN
       walkListing(IF e.isClass THEN [st EXCEPT !.rv = Append(@, Desc(e.path))]
                   ELSE [st EXCEPT !.dirStack = Append(@, e.path)],
                   Tail(dirListing))

\* The for loop over cpItems for one popped directory.
RECURSIVE walkItems(_, _, _)
walkItems(st, dir, cpItems) ==
  IF cpItems = <<>> THEN st
  ELSE walkItems(walkListing(st, tryReaddirSync(Head(cpItems), dir)), dir, Tail(cpItems))

\* while (dirStack.length > 0)
RECURSIVE walkDirs(_, _)
walkDirs(st, cpItems) ==
  IF st.dirStack = <<>> THEN st.rv
  ELSE LET dir == st.dirStack[Len(st.dirStack)]
           popped == [st EXCEPT !.dirStack = SubSeq(@, 1, Len(@) - 1)]
       IN walkDirs(walkItems(popped, dir, cpItems), cpItems)

\* The first loop: the locations that hold item, and the last one's kind.
RECURSIVE statScan(_, _, _, _)
statScan(cp, item, i, acc) ==
  IF i > Len(cp) THEN acc
  ELSE LET stat == Stat(cp[i], item) IN
       statScan(cp, item, i + 1,
                IF stat = "none" THEN acc
                ELSE [cpItems |-> Append(acc.cpItems, cp[i]), isDir |-> stat = "dir"])

\* getClasses
getClasses(cp, item) ==
  LET found == statScan(cp, item, 1, [cpItems |-> <<>>, isDir |-> FALSE]) IN
  IF found.cpItems = <<>> THEN [ok |-> FALSE, rv |-> <<>>]
  ELSE IF found.isDir
       THEN [ok |-> TRUE, rv |-> walkDirs([dirStack |-> <<item>>, rv |-> <<>>], found.cpItems)]
       ELSE [ok |-> TRUE, rv |-> <<Desc(item)>>]

\* TSTemplate.fileEnd's keys: kls.replace(/_/g, '/') of every class seen.
exportKeys(seen) == [i \in 1..Len(seen) |-> ReplaceAll(seen[i], "_", "/")]

\* ---------------------------------------------------------------- the run
NoRun == [valid |-> FALSE, targetPath |-> <<>>, forceHeaders |-> <<>>,
          stream |-> <<>>, headerFile |-> NoFile]

TypeIdle ==
  /\ tIn = <<>> /\ tPrefix = FALSE /\ tName = <<>> /\ tBack = Ok(<<>>) /\ tPc = "idle"

Fresh ==
  /\ cache = {} /\ loads = <<>>
  /\ headerSet = {} /\ generateQueue = <<>> /\ classesSeen = <<>> /\ headerCount = 0
  /\ firstMethod = TRUE /\ firstClass = TRUE
  /\ stream = <<>> /\ classes = <<>> /\ idx = 1
  /\ pushed = <<>> /\ existingHeaders = NoFile

\* async.each(items, ...) has started: loadJar is under way for every jar,
\* and cb() was called at once for every other location.
Loading(cp) == [i \in 1..Len(cp) |-> IF cp[i].kind = "jar" THEN "pending" ELSE "loaded"]
\* async.each calls back without an error once every item has called back.
allLoaded_any(j) == \E i \in DOMAIN j : j[i] = "loaded"
allLoaded(j) == \A i \in DOMAIN j : j[i] = "loaded"

Init ==
  /\ dialect \in Dialects
  /\ classpath \in Classpaths
  /\ targetPath \in Targets
  /\ forceHeaders \in ForceHeaders
  /\ headerFile = NoFile
  /\ run = 1
  /\ prevRun = NoRun
  /\ Fresh
  /\ jars = Loading(classpath)
  /\ pc = "loading"
  /\ TypeIdle

Inputs == <<dialect, classpath, targetPath, forceHeaders>>
Abort(w) == Commit(w) /\ pc' = "aborted"
\* An uncaught exception ends the process; otherwise the callback goes on.
CommitOrAbort(w, next) == IF w.thrown THEN Abort(w) ELSE Commit(w) /\ pc' = next

\* A jar's loadJar calls back without an error; when that completes
\* async.each, the main callback goes on: classpath = items.
JarLoaded ==
  /\ pc = "loading"
  /\ \E i \in DOMAIN jars :
       /\ jars[i] = "pending"
       /\ jars' = [jars EXCEPT ![i] = "loaded"]
  /\ pc' = IF allLoaded(jars') THEN "construct" ELSE "loading"
  /\ UNCHANGED <<Inputs, headerFile, cache, loads, headerSet, generateQueue, classesSeen,
                 headerCount, firstMethod, firstClass, stream, classes, idx, pushed,
                 existingHeaders, run, prevRun, typeVars>>

\* A jar's loadJar calls back with an error: if (e) throw e.
JarFailed ==
  /\ pc = "loading"
  /\ \E i \in DOMAIN jars :
       /\ jars[i] = "pending"
       /\ jars' = [jars EXCEPT ![i] = "failed"]
  /\ pc' = "aborted"
  /\ UNCHANGED <<Inputs, headerFile, cache, loads, headerSet, generateQueue, classesSeen,
                 headerCount, firstMethod, firstClass, stream, classes, idx, pushed,
                 existingHeaders, run, prevRun, typeVars>>

\* new JSTemplate()
ConstructJS ==
  /\ pc = "construct" /\ dialect = "js"
  /\ pc' = "fileStart"
  /\ UNCHANGED <<Inputs, jars, headerFile, cache, loads, headerSet, generateQueue, classesSeen,
                 headerCount, firstMethod, firstClass, stream, classes, idx, pushed,
                 existingHeaders, run, prevRun, typeVars>>

\* new TSTemplate(...), up to the end of its try block.
Replay ==
  /\ pc = "construct" /\ dialect = "ts"
  /\ existingHeaders' = headerFile
  /\ Commit(replayExisting(World, headerFile))
  /\ pc' = "prelude"
  /\ UNCHANGED <<Inputs, jars, classes, idx, run, prevRun, typeVars>>

\* new TSTemplate(...), from createWriteStream on.
Prelude ==
  /\ pc = "prelude"
  /\ CommitOrAbort(prelude(World), "fileStart")
  /\ UNCHANGED <<Inputs, jars, classes, idx, existingHeaders, run, prevRun, typeVars>>

\* fs.createWriteStream(...) and template.fileStart(stream)
FileStart ==
  /\ pc = "fileStart"
  /\ stream' = <<StubEntry("fileStart", <<>>, "", <<>>, <<>>, <<>>, <<>>)>>
  /\ pc' = "getClasses"
  /\ UNCHANGED <<Inputs, jars, headerFile, cache, loads, headerSet, generateQueue, classesSeen,
                 headerCount, firstMethod, firstClass, classes, idx, pushed,
                 existingHeaders, run, prevRun, typeVars>>

\* let classes = getClasses(targetPath)
GetClasses ==
  /\ pc = "getClasses"
  /\ LET r == getClasses(classpath, targetPath) IN
     /\ classes' = r.rv
     /\ pc' = IF r.ok THEN "classes" ELSE "aborted"
  /\ idx' = 1
  /\ UNCHANGED <<Inputs, jars, headerFile, cache, loads, headerSet, generateQueue, classesSeen,
                 headerCount, firstMethod, firstClass, stream, pushed,
                 existingHeaders, run, prevRun, typeVars>>

\* processClassData(stream, template, findClass(desc)), r being what
\* findClass did.
processFound(w, r, desc) ==
  IF r.ok THEN processClassData([w EXCEPT !.cache = r.cache, !.loads = @ \o r.loads], desc)
  ELSE [w EXCEPT !.cache = r.cache, !.loads = @ \o r.loads, !.thrown = TRUE]

\* A loop that catches the exception and goes on with the next class.
ClassDone_skip(w) == Commit(w) /\ pc' = pc /\ idx' = idx + 1
\* The end of a turn: an exception leaves the loop and the callback.
ClassDone(w) ==
  IF w.thrown THEN Abort(w) /\ idx' = idx
  ELSE Commit(w) /\ pc' = pc /\ idx' = idx + 1

\* One turn of the main loop: processClassData(stream, template, findClass(desc)).
ProcessClass ==
  /\ pc = "classes" /\ idx <= Len(classes)
  /\ ClassDone(processFound(World, findClass(cache, classpath, classes[idx], {}),
                            classes[idx]))
  /\ UNCHANGED <<Inputs, jars, classes, existingHeaders, run, prevRun, typeVars>>

\* template.fileEnd(stream)
FileEnd ==
  /\ pc = "classes" /\ idx > Len(classes)
  /\ stream' = Append(stream,
       StubEntry("fileEnd", <<>>, "", <<>>,
                 IF dialect = "ts" THEN exportKeys(classesSeen) ELSE <<>>, <<>>, <<>>))
  /\ pc' = IF dialect = "ts" THEN "drain" ELSE "end"
  /\ UNCHANGED <<Inputs, jars, headerFile, cache, loads, headerSet, generateQueue, classesSeen,
                 headerCount, firstMethod, firstClass, classes, idx, pushed,
                 existingHeaders, run, prevRun, typeVars>>

\* One turn of _processGenerateQueue: this._processHeader(this.generateQueue.pop())
Drain ==
  /\ pc = "drain" /\ generateQueue # <<>>
  /\ CommitOrAbort(
       processHeader([World EXCEPT !.generateQueue = SubSeq(@, 1, Len(@) - 1)],
                     generateQueue[Len(generateQueue)]),
       "drain")
  /\ UNCHANGED <<Inputs, jars, classes, idx, existingHeaders, run, prevRun, typeVars>>

\* A closing export written without draining the queue first.
HeadersEnd_early ==
  /\ pc = "drain"
  /\ headerFile' = Append(headerFile, Marker("export", <<>>))
  /\ pc' = "end"
  /\ UNCHANGED <<Inputs, jars, cache, loads, headerSet, generateQueue, classesSeen,
                 headerCount, firstMethod, firstClass, stream, classes, idx, pushed,
                 existingHeaders, run, prevRun, typeVars>>

\* headersEnd, once the queue is empty: the closing export.
HeadersEnd ==
  /\ pc = "drain" /\ generateQueue = <<>>
  /\ headerFile' = Append(headerFile, Marker("export", <<>>))
  /\ pc' = "end"
  /\ UNCHANGED <<Inputs, jars, cache, loads, headerSet, generateQueue, classesSeen, headerCount,
                 firstMethod, firstClass, stream, classes, idx, pushed,
                 existingHeaders, run, prevRun, typeVars>>

\* stream.end(...)
StreamEnd ==
  /\ pc = "end"
  /\ pc' = "done"
  /\ UNCHANGED <<Inputs, jars, headerFile, cache, loads, headerSet, generateQueue, classesSeen,
                 headerCount, firstMethod, firstClass, stream, classes, idx, pushed,
                 existingHeaders, run, prevRun, typeVars>>

\* doppioh is started again in the same output directory, with the same
\* dialect and class path, for some class or package.
Rerun ==
  /\ pc = "done" /\ run < MaxRuns
  /\ prevRun' = [valid |-> TRUE, targetPath |-> targetPath, forceHeaders |-> forceHeaders,
                 stream |-> stream, headerFile |-> headerFile]
  /\ run' = run + 1
  /\ targetPath' \in Targets
  /\ forceHeaders' \in ForceHeaders
  /\ jars' = Loading(classpath)
  /\ pc' = "loading"
  /\ cache' = {} /\ loads' = <<>>
  /\ headerSet' = {} /\ generateQueue' = <<>> /\ classesSeen' = <<>> /\ headerCount' = 0
  /\ firstMethod' = TRUE /\ firstClass' = TRUE
  /\ stream' = <<>> /\ classes' = <<>> /\ idx' = 1
  /\ pushed' = <<>> /\ existingHeaders' = NoFile
  /\ UNCHANGED <<dialect, classpath, headerFile, typeVars>>

\* ---------------------------------------------- the drain in any order
\* seq without its k-th element
Remove(seq, k) == SubSeq(seq, 1, k - 1) \o SubSeq(seq, k + 1, Len(seq))

\* One turn of a _processGenerateQueue that takes any pending class, not
\* the last one.
DrainAny ==
  /\ pc = "drain" /\ generateQueue # <<>>
  /\ \E k \in 1..Len(generateQueue) :
       CommitOrAbort(processHeader([World EXCEPT !.generateQueue = Remove(@, k)],
                                   generateQueue[k]),
                     "drain")
  /\ UNCHANGED <<Inputs, jars, classes, idx, existingHeaders, run, prevRun, typeVars>>

\* One run of the program with such a drain.
NextAnyOrder ==
  \/ JarLoaded \/ JarFailed
  \/ ConstructJS \/ Replay \/ Prelude \/ FileStart \/ GetClasses \/ ProcessClass
  \/ FileEnd \/ DrainAny \/ HeadersEnd \/ StreamEnd
SpecAnyOrder == Init /\ [][NextAnyOrder]_vars

\* _processGenerateQueue as the code runs it, to its end or to the first
\* exception.
RECURSIVE processGenerateQueue(_)
processGenerateQueue(w) ==
  IF w.thrown \/ w.generateQueue = <<>> THEN w
  ELSE processGenerateQueue(
         processHeader([w EXCEPT !.generateQueue = SubSeq(@, 1, Len(@) - 1)],
                       w.generateQueue[Len(w.generateQueue)]))

\* ------------------------------------------------- the type mapper alone
Tokens == {"a", "_", "/"}
ValidName(n) ==
  /\ n[1] # "/" /\ n[Len(n)] # "/"
  /\ \A i \in 1..(Len(n) - 1) : ~(n[i] = "/" /\ n[i + 1] = "/")
InternalNames ==
  UNION {{n \in [1..k -> Tokens] : ValidName(n)} : k \in 1..MaxNameLen}

RECURSIVE ArraysOf(_, _)
ArraysOf(base, depth) ==
  IF depth = 0 THEN base
  ELSE base \cup {ArrayOf(d) : d \in ArraysOf(base, depth - 1)}

Descriptors ==
  {Desc(n) : n \in InternalNames}
    \cup ArraysOf({<<c>> : c \in PrimitiveChars} \cup {Desc(<<"a">>), Desc(<<"a", "_", "a">>)},
                  MaxArrayDepth)

ProgramIdle ==
  /\ dialect = "ts" /\ classpath = <<Jar(JdkLocation)>> /\ targetPath = <<>>
  /\ jars = Loading(classpath)
  /\ forceHeaders = <<>> /\ headerFile = NoFile /\ run = 1 /\ prevRun = NoRun
  /\ Fresh

InitTypes ==
  /\ tIn \in Descriptors
  /\ tPrefix \in BOOLEAN
  /\ tName = <<>> /\ tBack = Ok(<<>>) /\ tPc = "start"
  /\ ProgramIdle
  /\ pc = "types"

\* name = jvmtype2tstype(desc, prefix)
Encode ==
  /\ tPc = "start"
  /\ tName' = jvmtype2tstype(tIn, tPrefix)
  /\ tPc' = "encoded"
  /\ UNCHANGED <<tIn, tPrefix, tBack, progVars>>

\* tstype2jvmtype(name)
Decode ==
  /\ tPc = "encoded"
  /\ tBack' = tstype2jvmtype(tName)
  /\ tPc' = "decoded"
  /\ UNCHANGED <<tIn, tPrefix, tName, progVars>>

NextTypes == Encode \/ Decode
SpecTypes == InitTypes /\ [][NextTypes]_vars

Next ==
  \/ JarLoaded \/ JarFailed
  \/ ConstructJS \/ Replay \/ Prelude \/ FileStart \/ GetClasses \/ ProcessClass
  \/ FileEnd \/ Drain \/ HeadersEnd \/ StreamEnd \/ Rerun

Spec == Init /\ [][Next]_vars

\* headersEnd runs _processGenerateQueue's loop and the closing export in one
\* synchronous call: once it has begun, a turn happens whenever the loop
\* condition holds, and the export once it does not.  A turn is told by the
\* counter _processHeader increments, the export by where the run stands.
Turn == pc = "drain" /\ generateQueue # <<>> /\ headerCount' = headerCount + 1
Closing == pc = "drain" /\ generateQueue = <<>> /\ pc' = "end"
SpecFair == Spec /\ WF_headerCount(Turn) /\ WF_pc(Closing)

\* ================================================================= claims
Range(seq) == {seq[i] : i \in 1..Len(seq)}
NoDuplicates(seq) == \A i, j \in 1..Len(seq) : i # j => seq[i] # seq[j]
Count(seq, x) == Cardinality({i \in 1..Len(seq) : seq[i] = x})
IsPrefixOf(a, b) == Len(a) <= Len(b) /\ SubSeq(b, 1, Len(a)) = a

IsDeclaration(e) == e.kind \in {"class", "interface"} /\ e.of # <<>>
\* The classes a header file declares, and the names it declares them by.
DeclaredOf(file) ==
  IF file = NoFile THEN <<>>
  ELSE LET ds == SelectSeq(file, IsDeclaration) IN [i \in 1..Len(ds) |-> ds[i].of]
DeclaredNames(file) ==
  IF file = NoFile THEN <<>>
  ELSE LET ds == SelectSeq(file, IsDeclaration) IN [i \in 1..Len(ds) |-> ds[i].name]
Finalized == dialect = "ts" /\ pc \in {"end", "done"}

\* C1: in header mode no descriptor is pushed onto the worklist twice, the
\* header never holds two declarations of one descriptor, and once the
\* header is finalized every descriptor that was pushed has exactly one
\* declaration in it (and nothing else is declared).
C1_AtMostOnce ==
  /\ NoDuplicates(pushed)
  /\ NoDuplicates(DeclaredOf(headerFile))
  /\ Finalized =>
       /\ \A d \in Range(pushed) : Count(DeclaredOf(headerFile), d) = 1
       /\ Range(DeclaredOf(headerFile)) \subseteq Range(pushed)

\* A second run over java: Throwable is found by the replay, by the prelude,
\* by classStart, by its own stub and by its own declaration.
C1_Witness ==
  /\ pc = "done" /\ dialect = "ts" /\ run = 2
  /\ existingHeaders # NoFile /\ targetPath = <<"java">>
  /\ Desc(N_Throwable) \in Range(DeclaredOf(existingHeaders))
  /\ Count(DeclaredOf(headerFile), Desc(N_Throwable)) = 1

\* The reference type under the arrays of a descriptor, if any.
RECURSIVE ElementRefs(_)
ElementRefs(type) ==
  IF type = <<>> THEN {}
  ELSE IF type[1] = "[" THEN ElementRefs(Tail(type))
  ELSE IF type[1] = "L" THEN {type} ELSE {}

\* The types a class refers to: superclass, interfaces, and the types of
\* its fields and of its methods' parameters and results.
ReferencedBy(desc) ==
  IF descriptor2typestr(desc) \notin NameSet THEN {}
  ELSE LET cls == ClassFile(descriptor2typestr(desc)) IN
       ElementRefs(cls.superClassRef)
         \cup UNION {ElementRefs(cls.interfaceClassRefs[i]) : i \in 1..Len(cls.interfaceClassRefs)}
         \cup UNION {ElementRefs(cls.fields[i].rawDescriptor) : i \in 1..Len(cls.fields)}
         \cup UNION {ElementRefs(cls.methods[i].returnType) : i \in 1..Len(cls.methods)}
         \cup UNION {UNION {ElementRefs(cls.methods[i].parameterTypes[k]) :
                              k \in 1..Len(cls.methods[i].parameterTypes)} :
                       i \in 1..Len(cls.methods)}

RECURSIVE Closure(_)
Closure(S) ==
  LET more == S \cup UNION {ReferencedBy(d) : d \in S} IN
  IF more = S THEN S ELSE Closure(more)

\* C2: after a header-mode run the header declares exactly the closure of
\* the requested classes, the previously declared classes (with the
\* prelude's seeds) and every type they refer to; every requested class
\* is a seed, those without native methods too.
C2_RequestedAreSeeds ==
  (pc = "done" /\ dialect = "ts") =>
    Range(DeclaredOf(headerFile)) =
      Closure(Range(classes) \cup Range(DeclaredOf(existingHeaders))
                \cup {Desc(N_Throwable)} \cup Range(forceHeaders))

RECURSIVE LastSlash(_, _)
LastSlash(name, i) ==
  IF i = 0 \/ name[i] = "/" THEN i ELSE LastSlash(name, i - 1)
SimpleName(name) == SubSeq(name, LastSlash(name, Len(name)) + 1, Len(name))
HasUnderscore(s) == \E i \in 1..Len(s) : s[i] = "_"
RoundTripOf(isCase) ==
  tPc = "decoded" /\ ~tPrefix /\ tIn[1] = "L"
    /\ isCase = HasUnderscore(SimpleName(descriptor2typestr(tIn)))

\* C3: a reference descriptor whose simple name has no underscore, whatever
\* its package components hold, is decoded back from its unqualified name.
C3_RoundTrip == RoundTripOf(FALSE) => tBack = Ok(tIn)

\* C4: a reference descriptor whose simple name holds underscores is
\* encoded by doubling them and turning the separators into underscores,
\* and decoding returns the original descriptor.
C4_UnderscoreRoundTrip ==
  RoundTripOf(TRUE) =>
    /\ tName = ReplaceAll(DoubleUnderscores(descriptor2typestr(tIn)), "/", "_")
    /\ tBack = Ok(tIn)

\* C5: a run with the inputs of the run before it, replaying that run's
\* header, writes the same stub file and the same header, entry for entry.
C5_Idempotent ==
  (pc = "done" /\ prevRun.valid /\ prevRun.targetPath = targetPath
     /\ prevRun.forceHeaders = forceHeaders) =>
    /\ stream = prevRun.stream
    /\ headerFile = prevRun.headerFile

\* C6: every class or interface the prior header declares is declared again
\* by the run that replayed it.
C6_Cumulative ==
  (pc = "done" /\ dialect = "ts" /\ existingHeaders # NoFile) =>
    Range(DeclaredNames(existingHeaders)) \subseteq Range(DeclaredNames(headerFile))

\* The stub file without its separators: what was written, for which class.
Written(e) == e.kind # "comma"
Skeleton(file) ==
  LET es == SelectSeq(file, Written) IN
  [i \in 1..Len(es) |-> <<es[i].kind, es[i].cls, es[i].name>>]

IsNative(m) == m.isNative
\* What the class file says a processed class contributes to the stub file.
ExpectedBlock(desc) ==
  LET natives == SelectSeq(ClassFile(descriptor2typestr(desc)).methods, IsNative) IN
  IF natives = <<>> THEN <<>>
  ELSE <<<<"classStart", fixedClassName(desc), "">>>>
         \o [i \in 1..Len(natives) |-> <<"method", desc, natives[i].signature>>]
         \o <<<<"classEnd", fixedClassName(desc), "">>>>
RECURSIVE ExpectedBlocks(_)
ExpectedBlocks(n) ==
  IF n = 0 THEN <<>> ELSE ExpectedBlocks(n - 1) \o ExpectedBlock(classes[n])
FileStartMark == <<<<"fileStart", <<>>, "">>>>
FileEndMark == <<<<"fileEnd", <<>>, "">>>>
Processed == IF idx - 1 < Len(classes) THEN idx - 1 ELSE Len(classes)
OpenBlock == IF idx <= Len(classes) THEN ExpectedBlock(classes[idx]) ELSE FileEndMark

\* C7: each processed class contributes nothing to the stub file when it has
\* no native method, and otherwise one classStart, one method stub for each
\* of its native methods (none for the others) and one classEnd, in that
\* order; a run that stops part-way leaves a prefix of that.
C7_SkipRule ==
  /\ pc = "classes" => Skeleton(stream) = FileStartMark \o ExpectedBlocks(idx - 1)
  /\ pc \in {"drain", "end", "done"} =>
       Skeleton(stream) = FileStartMark \o ExpectedBlocks(Len(classes)) \o FileEndMark
  /\ (pc = "aborted" /\ stream # <<>>) =>
       /\ IsPrefixOf(FileStartMark \o ExpectedBlocks(Processed), Skeleton(stream))
       /\ IsPrefixOf(Skeleton(stream), FileStartMark \o ExpectedBlocks(Processed) \o OpenBlock)

\* A finished run over p: p/A has native methods and a non-native one,
\* p/B and p/N have none.
C7_Witness ==
  /\ pc = "done" /\ targetPath = <<"p">>
  /\ {Desc(N_A), Desc(N_B)} \subseteq Range(classes)
  /\ <<"classStart", fixedClassName(Desc(N_A)), "">> \in Range(Skeleton(stream))
  /\ \A i \in 1..Len(stream) : stream[i].cls # Desc(N_B)

NumericResults == {<<"B">>, <<"C">>, <<"D">>, <<"F">>, <<"I">>, <<"S">>, <<"Z">>}
\* The result descriptor the class file gives the method a stub was written for.
ResultOf(e) ==
  LET ms == ClassFile(descriptor2typestr(e.cls)).methods IN
  ms[CHOOSE i \in 1..Len(ms) : ms[i].signature = e.name].returnType
Placeholder(rType) ==
  IF dialect = "js" \/ rType = <<"V">> THEN <<>>
  ELSE IF rType \in NumericResults THEN <<"return 0">>
  ELSE <<"return null">>
IsStub(e) == e.kind = "method"
StubBodies == {e.body : e \in {x \in Range(stream) : IsStub(x)}}

\* C10: every method stub's body begins by raising UnsatisfiedLinkError,
\* and a TypeScript stub for a non-void method follows it with a placeholder return: 0 when the result
\* maps to the numeric type, null otherwise.
C10_StubBody ==
  \A i \in 1..Len(stream) :
    IsStub(stream[i]) =>
      /\ stream[i].body[1] = Raise
      /\ stream[i].body = <<Raise>> \o Placeholder(ResultOf(stream[i]))

C10_Witness ==
  /\ pc = "done" /\ dialect = "ts"
  /\ {<<Raise>>, <<Raise, "return 0">>, <<Raise, "return null">>} \subseteq StubBodies

TwoLevelIntArray == <<"[", "[", "I">>
\* C8: the two-level int array is encoded as the array wrapper applied twice
\* to the numeric type, and decoding that name fails with the ambiguity error.
C8_ArrayOfNumber ==
  (tPc = "decoded" /\ tIn = TwoLevelIntArray) =>
    /\ tName = IF tPrefix
                 THEN <<"JVMTypes.", "JVMArray<", "JVMTypes.", "JVMArray<", "number", ">", ">">>
                 ELSE <<"JVMArray<", "JVMArray<", "number", ">", ">">>
    /\ tBack.err = "Ambiguous."

LossyNames == {<<"number">>, <<"Long">>, <<"void">>}
IsClassStart(e) == e.kind = "classStart"
ClassStarts(file) ==
  LET es == SelectSeq(file, IsClassStart) IN [i \in 1..Len(es) |-> es[i].cls]
Expanded == pc \in {"classes", "drain", "end", "done"}

\* C11: the list getClasses returns holds each descriptor at most once, also
\* when a package or class file is found in several search locations, so
\* that no class gets two blocks in the stub file.
C11_ExpandedOnce ==
  Expanded => NoDuplicates(classes) /\ NoDuplicates(ClassStarts(stream))

HasKind(file, kind) == \E i \in 1..Len(file) : file[i].kind = kind
IsIncomplete(e) == ~e.complete
\* The run stopped on an exception of the main callback, the jars loaded.
Stopped == pc = "aborted" /\ allLoaded(jars)
\* What a failed resolution leaves behind, and what a run that went on
\* past a phase has resolved.
C12_Outcomes ==
  /\ Stopped =>
       /\ headerFile # NoFile => ~HasKind(headerFile, "export")
       /\ HasKind(stream, "fileEnd") => dialect = "ts" /\ idx > Len(classes)
       /\ \A i \in 1..Len(stream) :
            stream[i].kind = "method" =>
              \E j \in 1..Len(classes) : j <= idx /\ classes[j] = stream[i].cls
  /\ pc \in {"drain", "end", "done"} => Range(classes) \subseteq cache
  /\ Finalized =>
       /\ Range(pushed) \subseteq cache
       /\ SelectSeq(headerFile, IsIncomplete) = <<>>

Held(type) == \E i \in 1..Len(classpath) : type \in classpath[i].classes
\* The superclass and the interfaces a class file names.
Supers(desc) ==
  IF ~Held(descriptor2typestr(desc)) THEN {}
  ELSE LET cls == ClassFile(descriptor2typestr(desc)) IN
       (IF cls.superClassRef = NoClass THEN {} ELSE {cls.superClassRef})
         \cup Range(cls.interfaceClassRefs)
RECURSIVE Hierarchy(_)
Hierarchy(S) ==
  LET more == S \cup UNION {Supers(d) : d \in S} IN
  IF more = S THEN S ELSE Hierarchy(more)
HierarchyHeld(desc) == \A d \in Hierarchy({desc}) : Held(descriptor2typestr(d))

\* C13: findClass returns for every class whose superclass and interface
\* references lead only to class files that exist, cycles among them
\* included: a stub-only run never stops at such a class.
C13_CyclesTerminate ==
  (Stopped /\ dialect = "js" /\ idx <= Len(classes)) => ~HierarchyHeld(classes[idx])

\* The loadClass calls that returned the bytes of a type.
GaveBytes(type) == {i \in 1..Len(loads) : loads[i].type = type /\ loads[i].from # 0}
\* The descriptors whose generateClassDefinition failed inside the replay.
ReplayFailures == headerSet \ Range(pushed)
C14_Entries ==
  /\ \A d \in cache : d[1] = "L" => Cardinality(GaveBytes(descriptor2typestr(d))) = 1
  /\ ReplayFailures \cap cache = {}
  /\ (Stopped /\ dialect = "js" /\ idx <= Len(classes)) => classes[idx] \notin cache

\* C14: within a run the cache only grows; a cached class was loaded once
\* and is never loaded again; a findClass that fails leaves no entry for
\* its descriptor.
C14_WriteOnce ==
  /\ []C14_Entries
  /\ [][pc' # "loading" => cache \subseteq cache' /\ IsPrefixOf(loads, loads')]_vars

\* A run that found Object through several classes and whose replay failed
\* on a name.
C14_Witness ==
  /\ pc = "done" /\ ReplayFailures # {}
  /\ {Desc(N_Object), Desc(N_Throwable), Desc(N_Serializable)} \subseteq cache

\* C15: the replay skips a name that does not decode or resolve, on its own:
\* every other name of the prior header that decodes and resolves has been
\* enqueued when the replay is over.
C15_ReplaySkipsOnlyBad ==
  (pc = "prelude" /\ existingHeaders # NoFile) =>
    \A n \in Range(MarkerNames(existingHeaders)) :
      (tstype2jvmtype(n).err = ""
         /\ findClass({}, classpath, tstype2jvmtype(n).val, {}).ok)
        => tstype2jvmtype(n).val \in Range(pushed)

\* The locations loadClass has to ask for a type, up to location n.
Askable(type, n) == {k \in 1..n : hasClass(classpath[k], type) # "FALSE"}
Holders(type) == {k \in 1..Len(classpath) : type \in classpath[k].classes}
WellLoaded(e) ==
  /\ \A i, j \in 1..Len(e.attempts) : i < j => e.attempts[i] < e.attempts[j]
  /\ e.from = 0 <=> Holders(e.type) = {}
  /\ e.from # 0 => e.from \in Holders(e.type) /\ \A k \in Holders(e.type) : e.from <= k
  /\ Range(e.attempts) = Askable(e.type, IF e.from = 0 THEN Len(classpath) ELSE e.from)
FailedLoads == {i \in 1..Len(loads) : loads[i].from = 0}

\* C16: loadClass asks the locations in order, only those whose hasClass is
\* not FALSE, returns the bytes of the first that gives some, and fails,
\* stopping the resolution, exactly when none does.
C16_LoadOrder ==
  /\ \A i \in 1..Len(loads) : WellLoaded(loads[i])
  /\ FailedLoads # {} => pc = "aborted" \/ ReplayFailures # {}

\* A class a folder was asked for in vain and a later jar gave.
C16_Witness ==
  /\ pc = "done"
  /\ \E i \in 1..Len(loads) :
       /\ Len(loads[i].attempts) >= 2
       /\ loads[i].from = 3
       /\ classpath[loads[i].attempts[1]].kind = "folder"

\* The locations whose archive is not in memory.
Unfinished == {i \in DOMAIN jars : jars[i] # "loaded"}
NothingStarted ==
  /\ cache = {} /\ loads = <<>> /\ classes = <<>> /\ stream = <<>>
  /\ headerSet = {} /\ pushed = <<>> /\ existingHeaders = NoFile

\* C17: whatever the order in which the jars finish loading, nothing is
\* expanded, resolved, loaded or replayed while a jar is still loading, and
\* nothing ever is once a jar has failed to load.
C17_LoadedFirst ==
  /\ pc \notin {"loading", "aborted"} => Unfinished = {}
  /\ Unfinished # {} => NothingStarted /\ pc \in {"loading", "aborted"}
  /\ (\E i \in DOMAIN jars : jars[i] = "failed") => pc = "aborted"

\* A finished run over a class path with two jars.
C17_Witness ==
  /\ pc = "done" /\ loads # <<>>
  /\ Cardinality({i \in DOMAIN jars : classpath[i].kind = "jar"}) >= 2

Boilerplate == <<"headersStart", "class", "misc">>
\* The shape of a header file, this run's or an earlier one's.
WellPhased(file) ==
  /\ Len(file) >= 3
  /\ \A i \in 1..3 : file[i].kind = Boilerplate[i] /\ ~IsDeclaration(file[i])
  /\ \A i \in 1..Len(file) : file[i].kind = "export" => i = Len(file)
C18_Phases ==
  /\ headerFile # NoFile => WellPhased(headerFile)
  /\ pc = "prelude" => headerFile = existingHeaders
  /\ (dialect = "ts" /\ pc \in {"fileStart", "getClasses", "classes", "drain"}) =>
       ~HasKind(headerFile, "export")
  /\ Finalized => generateQueue = <<>> /\ headerFile[Len(headerFile)].kind = "export"

\* C18: the header is written in the order replay, prelude, drain,
\* finalize: the replay writes nothing, every declaration follows the
\* prelude's boilerplate, the closing export is the last entry and is
\* written with the worklist empty, and after it nothing is enqueued or
\* written.
C18_PhaseOrder ==
  /\ []C18_Phases
  /\ [][pc = "end" => /\ headerFile' = headerFile /\ pushed' = pushed
                      /\ generateQueue' = generateQueue /\ headerSet' = headerSet]_vars

\* A finalized header of a run that replayed an earlier one.
C18_Witness ==
  /\ Finalized /\ existingHeaders # NoFile
  /\ Len(DeclaredOf(headerFile)) >= 5
  /\ Range(DeclaredOf(existingHeaders)) \cap Range(pushed) # {}

\* What the header would declare if the code's own drain took over now.
OutcomeOf(w) ==
  [fails |-> w.thrown,
   declared |-> IF w.thrown THEN {} ELSE Range(DeclaredOf(w.headerFile))]
LifoOutcome == OutcomeOf(processGenerateQueue(World))
\* The same after one turn that takes the k-th pending class.
OutcomeAfter(k) ==
  OutcomeOf(processGenerateQueue(
    processHeader([World EXCEPT !.generateQueue = Remove(@, k)], generateQueue[k])))

\* C19: whatever pending class a turn of the drain takes, the set of
\* classes the header ends up declaring is the one the last-in-first-out
\* drain yields from the same worklist, and the run fails only if that
\* drain fails too.
C19_OrderFree ==
  /\ pc = "drain" => \A k \in 1..Len(generateQueue) : OutcomeAfter(k) = LifoOutcome
  /\ Finalized => Range(DeclaredOf(headerFile)) = Range(pushed)

\* A first run over p whose drain began with the oldest pending class.
C19_Witness ==
  /\ Finalized /\ run = 1 /\ targetPath = <<"p">>
  /\ Len(DeclaredOf(headerFile)) >= 6
  /\ DeclaredOf(headerFile)[1] = Desc(N_Throwable)

\* Every class that what was pushed so far refers to, directly or not, is
\* found on the class path, with its superclasses and interfaces.
Resolves(desc) == findClass({}, classpath, desc, {}).ok
AllResolve == \A d \in Closure(Range(pushed)) : Resolves(d)

\* C20: a drain over classes that all resolve reaches the closing export
\* with an empty worklist; no turn of it pushes anything but a class that
\* the classes pushed before refer to, and the turns taken never outnumber
\* the distinct classes pushed.
C20_Terminates ==
  /\ [](headerCount <= Cardinality(Range(pushed)))
  /\ [][pc = "drain" => Range(pushed') \subseteq Closure(Range(pushed))]_vars
  /\ (pc = "drain" /\ AllResolve) ~> (pc = "end" /\ generateQueue = <<>>)

\* A finished drain that declared p/A and p/_C, which refer to each other.
C20_Witness ==
  /\ dialect = "ts" /\ pc = "end" /\ generateQueue = <<>>
  /\ {Desc(N_A), Desc(N_C)} \subseteq Range(DeclaredOf(headerFile))
  /\ Desc(N_C) \in ReferencedBy(Desc(N_A)) /\ Desc(N_A) \in ReferencedBy(Desc(N_C))
  /\ headerCount = Cardinality(Range(pushed))
  /\ AllResolve

\* The declarations a header file holds that were written to their end.
Declarations(file) ==
  IF file = NoFile THEN {}
  ELSE {file[i] : i \in {j \in 1..Len(file) : IsDeclaration(file[j]) /\ file[j].complete}}
InterfaceDeclarations(file) == {e \in Declarations(file) : e.kind = "interface"}
RootName == jvmtype2tstype(Desc(N_Object), FALSE)

\* C21: the base list of every interface declaration in the header is the
\* list of the interfaces it extends, and java/lang/Object is not written
\* as a base of it.
C21_InterfaceBases ==
  \A e \in InterfaceDeclarations(headerFile) :
    /\ e.extends # RootName
    /\ RootName \notin Range(e.bases)
    /\ e.bases = Names(ClassFile(descriptor2typestr(e.of)).interfaceClassRefs, FALSE)

IsMethodLine(l) == l.kind = "method"
MethodLines(e) == SelectSeq(e.members, IsMethodLine)
MethodsOf(e) == ClassFile(descriptor2typestr(e.of)).methods
\* One short line per method, in the methods' order.
OneLineEach(lines, ms) ==
  /\ Len(lines) = Len(ms)
  /\ \A i \in 1..Len(ms) : lines[i].sig = ms[i].signature /\ ~lines[i].full
\* A short line and a fully-qualified line per method.
TwoLinesEach(lines, ms) ==
  /\ Len(lines) = 2 * Len(ms)
  /\ \A i \in 1..Len(ms) :
       /\ lines[2 * i - 1].sig = ms[i].signature /\ ~lines[2 * i - 1].full
       /\ lines[2 * i].sig = ms[i].signature /\ lines[2 * i].full

\* C22: in the header every method of a declared interface, static or not,
\* has exactly one line, its short signature, and every method of a
\* declared class has its short and its fully-qualified line.
C22_MethodLines ==
  \A e \in Declarations(headerFile) :
    IF e.kind = "interface" THEN OneLineEach(MethodLines(e), MethodsOf(e))
    ELSE TwoLinesEach(MethodLines(e), MethodsOf(e))

\* What this run has declared so far: until the constructor opens the
\* header anew, the file is still the earlier run's.
Emitted ==
  IF pc \in {"loading", "construct", "prelude"} THEN {}
  ELSE Range(DeclaredOf(headerFile))

\* C23: as long as the run goes on, every descriptor marked in headerSet is
\* pending on the worklist or already declared, and in a finalized header
\* every marked descriptor is declared; also after a replay in which a
\* resolution failed.
C23_SeenQueuedOrEmitted ==
  pc # "aborted" =>
    /\ headerSet \subseteq Range(generateQueue) \cup Emitted
    /\ Finalized => headerSet \subseteq Range(DeclaredOf(headerFile))

HasNative(desc) == SelectSeq(ClassFile(descriptor2typestr(desc)).methods, IsNative) # <<>>
\* The first n classes of the run that have a native method, and the keys
\* their own internal names make.
NativeClasses(n) == SelectSeq(SubSeq(classes, 1, n), HasNative)
OwnKeys(n) ==
  [i \in 1..Len(NativeClasses(n)) |-> descriptor2typestr(NativeClasses(n)[i])]
\* The class keys in the stub file: of the blocks (JavaScript), of the
\* export (TypeScript).
IsFileEnd(e) == e.kind = "fileEnd"
BlockKeys(file) ==
  LET es == SelectSeq(file, IsClassStart) IN [i \in 1..Len(es) |-> es[i].key]
ExportKeys(file) == SelectSeq(file, IsFileEnd)[1].params
\* The main loop stopped at a class that resolves with all it refers to.
StoppedAtSound ==
  /\ Stopped /\ classes # <<>> /\ idx <= Len(classes)
  /\ \A d \in Closure({classes[idx]}) : Resolves(d)

\* C24: the class keys written for the classes with a native method are
\* their own internal names, in both dialects; the typed dialect marks and
\* enqueues each such class under its own descriptor, and the main loop
\* never stops at a class that resolves together with all it refers to.
C24_OwnName ==
  /\ (dialect = "js" /\ pc \in {"classes", "end", "done"}) =>
       BlockKeys(stream) = OwnKeys(Processed)
  /\ (dialect = "ts" /\ pc \in {"drain", "end", "done"}) =>
       ExportKeys(stream) = OwnKeys(Len(classes))
  /\ (dialect = "ts" /\ Expanded) => Range(NativeClasses(Processed)) \subseteq headerSet
  /\ ~StoppedAtSound

====
